---- MODULE Spec2Model ----
(***************************************************************************)
(* Model of donkeypart_unitysimulator/part.py: the SteeringServer that     *)
(* answers the simulator's "connect" and "telemetry" SocketIO events, its  *)
(* FPSTimer, and the single cooperative worker that eventlet gives the     *)
(* handlers.                                                               *)
(*                                                                         *)
(* Python floats are fixed-point integers in hundredths (0.3 is 30).       *)
(* Python strings that are parsed or produced are sequences of one-        *)
(* character strings ("0.3" is <<"0", ".", "3">>).  A dict is the set of   *)
(* its <<key, value>> pairs.                                               *)
(***************************************************************************)
EXTENDS Integers, Sequences, FiniteSets, TLC

VARIABLES
    top_speed,       \* SteeringServer.top_speed (float, hundredths)
    steering_scale,  \* SteeringServer.steering_scale (float, hundredths)
    image_part,      \* SteeringServer.image_part: "None" or "filter"
    server,          \* go(): [phase, out, escaped]
    timer,           \* SteeringServer.timer: [t, iter] and what it printed
    now,             \* the wall clock read by time.time()
    connected,       \* sids the SocketIO server holds in its default room
    queue,           \* per sid: telemetry events received, not yet dispatched
    running,         \* sid whose handler holds the worker, or NoSid
    pc,              \* position of the running handler
    loc,             \* local variables of the running handler
    inlog,           \* handler invocations in dispatch order
    outlog           \* events emitted through sio.emit, in emission order

vars == <<top_speed, steering_scale, image_part, server, timer, now, connected, queue,
          running, pc, loc, inlog, outlog>>

----------------------------------------------------------------------------
(* Bounds *)

MaxEvents == 3
MaxQueue == 2
MaxClock == 1
MaxFrames == 201

----------------------------------------------------------------------------
(* Values *)

Sids == {"a", "b"}
NoSid == "-"
PyTrue == "True"

Digits == <<"0", "1", "2", "3", "4", "5", "6", "7", "8", "9">>

DigitVal(c) == CHOOSE d \in 0..9 : Digits[d + 1] = c

IsDigit(c) == \E d \in 0..9 : Digits[d + 1] = c

AllDigits(s) == \A i \in 1..Len(s) : IsDigit(s[i])

RECURSIVE DigitsVal(_)
DigitsVal(s) ==
    IF s = <<>> THEN 0
    ELSE 10 * DigitsVal(SubSeq(s, 1, Len(s) - 1)) + DigitVal(s[Len(s)])

DotAt(s) == IF \E i \in 1..Len(s) : s[i] = "."
            THEN CHOOSE i \in 1..Len(s) : s[i] = "." /\ \A j \in 1..(i - 1) : s[j] # "."
            ELSE 0

\* the unsigned decimal literals float() accepts, to two fractional digits
IsUnsignedDecimal(s) ==
    LET d == DotAt(s) IN
    IF d = 0 THEN Len(s) >= 1 /\ AllDigits(s)
    ELSE /\ Len(s) >= 2
         /\ Len(s) - d <= 2
         /\ AllDigits(SubSeq(s, 1, d - 1))
         /\ AllDigits(SubSeq(s, d + 1, Len(s)))

UnsignedDecimalVal(s) ==
    LET d == DotAt(s) IN
    IF d = 0 THEN 100 * DigitsVal(s)
    ELSE LET frac == SubSeq(s, d + 1, Len(s)) IN
         100 * DigitsVal(SubSeq(s, 1, d - 1))
           + (IF Len(frac) = 0 THEN 0
              ELSE IF Len(frac) = 1 THEN 10 * DigitsVal(frac)
              ELSE DigitsVal(frac))

HasSign(s) == Len(s) >= 1 /\ s[1] \in {"-", "+"}

\* float(text): TRUE when the text parses
FloatOk(s) == IsUnsignedDecimal(IF HasSign(s) THEN Tail(s) ELSE s)

\* float(text), in hundredths
Float(s) ==
    IF HasSign(s)
    THEN (IF s[1] = "-" THEN -1 ELSE 1) * UnsignedDecimalVal(Tail(s))
    ELSE UnsignedDecimalVal(s)

RECURSIVE NatStr(_)
NatStr(n) == IF n < 10 THEN <<Digits[n + 1]>>
             ELSE NatStr(n \div 10) \o <<Digits[(n % 10) + 1]>>

\* int.__str__
IntStr(n) == IF n < 0 THEN <<"-">> \o NatStr(-n) ELSE NatStr(n)

\* float.__str__ of the value h hundredths: shortest repr, at least one
\* fractional digit
FloatStr(h) ==
    LET a == IF h < 0 THEN -h ELSE h
        f == a % 100
        fr == IF f % 10 = 0 THEN <<Digits[(f \div 10) + 1]>>
              ELSE <<Digits[(f \div 10) + 1], Digits[(f % 10) + 1]>>
    IN  (IF h < 0 THEN <<"-">> ELSE <<>>) \o NatStr(a \div 100) \o <<".">> \o fr

PyInt(n) == [ty |-> "int", v |-> n]
PyFloat(h) == [ty |-> "float", v |-> h]

\* x.__str__()
Str(x) == IF x.ty = "int" THEN IntStr(x.v) ELSE FloatStr(x.v)

\* dicts as sets of <<key, value>>
Has(d, k) == \E p \in d : p[1] = k
Get(d, k) == (CHOOSE p \in d : p[1] = k)[2]

----------------------------------------------------------------------------
(* Inputs *)

PyNone == [none |-> TRUE, d |-> {}]
EmptyDict == [none |-> FALSE, d |-> {}]

Frame(sa, th, sp, img) ==
    [none |-> FALSE,
     d |-> {<<"steering_angle", sa>>, <<"throttle", th>>,
            <<"speed", sp>>, <<"image", img>>}]

\* an image text is <<signature, buffer id>>; signature "P" is the base64
\* text of a raster file, anything else is bytes Image.open rejects
GoodFrames ==
    {Frame(<<"0">>, <<"0", ".", "3">>, <<"2">>, <<"P", "1">>),
     Frame(<<"-", "0", ".", "5">>, <<"0">>, <<"4", ".", "0">>, <<"P", "2">>)}

MissingSpeed ==
    [none |-> FALSE,
     d |-> {<<"steering_angle", <<"0">>>>, <<"throttle", <<"0">>>>,
            <<"image", <<"P", "1">>>>}]

NonNumeric == Frame(<<"0">>, <<"a", "b", "c">>, <<"2">>, <<"P", "1">>)

BadImage == Frame(<<"0">>, <<"0">>, <<"2">>, <<"x", "1">>)

BadFrames == {MissingSpeed, NonNumeric, BadImage}

Payloads == {PyNone, EmptyDict} \cup GoodFrames \cup BadFrames

\* what kpart.run may return: (steering, throttle), floats in hundredths
ModelOutputs == {<<-50, 80>>, <<50, 0>>}

\* the constructions of SteeringServer tried: <<top_speed, steering_scale,
\* image_part>>; each parameter is read by one step of telemetry() only
Configs == {<<300, 100, "None">>, <<400, 200, "filter">>}

----------------------------------------------------------------------------
(* Pure parts of the handlers *)

\* `if data is not None:` in place of `if data:`
TruthyNotNone(data) == ~data.none

\* `if data:`
Truthy(data) == ~data.none /\ data.d # {}

\* Image.open(BytesIO(base64.b64decode(imgString)))
ImageOpens(img) == Len(img) = 2 /\ img[1] = "P" /\ IsDigit(img[2])

\* np.asarray(image): the pixel buffer, named by its id
AsArray(img) == DigitVal(img[2])

\* image_part.run(image_array): an opaque transform, never the identity here
ImagePartRun(arr) == arr + 10

\* first exception raised by lines 130-142, or "none"
DecodeError(d) ==
    IF ~Has(d, "steering_angle") THEN "KeyError"
    ELSE IF ~FloatOk(Get(d, "steering_angle")) THEN "ValueError"
    ELSE IF ~Has(d, "throttle") THEN "KeyError"
    ELSE IF ~FloatOk(Get(d, "throttle")) THEN "ValueError"
    ELSE IF ~Has(d, "speed") THEN "KeyError"
    ELSE IF ~FloatOk(Get(d, "speed")) THEN "ValueError"
    ELSE IF ~Has(d, "image") THEN "KeyError"
    ELSE IF ~ImageOpens(Get(d, "image")) THEN "OSError"
    ELSE "none"

\* `speed <= self.top_speed` in place of `<`
throttle_control_le(last_steering, last_throttle, speed, nn_throttle) ==
    IF speed <= top_speed THEN 30 ELSE 0

throttle_control(last_steering, last_throttle, speed, nn_throttle) ==
    IF speed < top_speed THEN 30 ELSE 0

\* the product with the scale left out
FloatMulUnscaled(a, b) == a

\* float * float on hundredths
FloatMul(a, b) == (a * b) \div 100

\* sio.emit(event, data, skip_sid=skip_sid): no room given, so every sid of
\* the default room except skip_sid receives it
Emit(event, data, skip_sid, cause) ==
    Append(outlog, [event |-> event, data |-> data,
                    recips |-> {c \in connected : c # skip_sid},
                    cause |-> cause])

send_control(steering_angle, throttle, cause) ==
    Emit("steer",
         {<<"steering_angle", Str(steering_angle)>>,
          <<"throttle", Str(throttle)>>},
         PyTrue, cause)

\* FPSTimer.__init__.  Besides t and iter the record keeps the history of
\* the timer: reports, the 'fps' lines printed; run, the on_frame calls since
\* the last reset or full window; wins, the full windows of 100 calls
NewTimer == [t |-> now, iter |-> 0, reports |-> 0, run |-> 0, wins |-> 0]

\* FPSTimer.reset
reset(tm) == [tm EXCEPT !.t = now, !.iter = 0, !.run = 0]

\* the history part of an on_frame call
Counted(tm) ==
    IF tm.run + 1 = 100 THEN [tm EXCEPT !.run = 0, !.wins = @ + 1]
    ELSE [tm EXCEPT !.run = @ + 1]

\* line 89: 100.0 / (e - self.t) divides by zero when the clock reads the
\* same at the end of the window as at its start
on_frame_raises(tm) == tm.iter + 1 = 100 /\ now = tm.t

\* FPSTimer.on_frame; reports counts the 'fps' lines printed
on_frame(tm) ==
    IF tm.iter + 1 = 100
    THEN IF now = tm.t
         THEN [Counted(tm) EXCEPT !.iter = 100]
         ELSE [Counted(tm) EXCEPT !.t = now, !.iter = 0, !.reports = @ + 1]
    ELSE [Counted(tm) EXCEPT !.iter = @ + 1]

\* a bare `except:` in place of `except KeyboardInterrupt:`
go_except_all(exc) ==
    [phase |-> "stopped", out |-> <<"stopping">>, escaped |-> "none"]

\* go(), lines 190-195: what the try statement does with an exception of
\* eventlet.listen or eventlet.wsgi.server
go_except(exc) ==
    IF exc = "KeyboardInterrupt"
    THEN [phase |-> "stopped", out |-> <<"stopping">>, escaped |-> "none"]
    ELSE [phase |-> "failed", out |-> <<>>, escaped |-> exc]

----------------------------------------------------------------------------
(* State *)

NoLoc == [last_steering |-> 0, last_throttle |-> 0, speed |-> 0,
          image_array |-> 0, steering |-> 0, throttle |-> 0]

Call(s, kind, data, n) ==
    [sid |-> s, kind |-> kind, data |-> data, n |-> n, status |-> "running",
     exc |-> "none", kruns |-> 0, iruns |-> 0, seen |-> 0, nn |-> <<0, 0>>,
     reached |-> <<>>, loc |-> NoLoc]

Cur == Len(inlog)

SetMax(S) == CHOOSE m \in S : \A x \in S : x <= m

\* arrival number of the next telemetry event
NextStamp ==
    1 + SetMax({0} \cup {inlog[i].n : i \in 1..Len(inlog)}
                  \cup UNION {{queue[s][k].n : k \in 1..Len(queue[s])} : s \in Sids})

Pending == Len(inlog) + Len(queue["a"]) + Len(queue["b"])

\* handlers started without waiting for the running one
IdleAlways == TRUE

\* the handlers are plain calls on eventlet's single cooperative worker:
\* one starts only when none is running
Idle == running = NoSid

\* eventlet.wsgi.server is accepting events
Serving == server.phase = "serving"

Init ==
    /\ \E c \in Configs :
           /\ top_speed = c[1]
           /\ steering_scale = c[2]
           /\ image_part = c[3]
    /\ server = [phase |-> "constructed", out |-> <<>>, escaped |-> "none"]
    /\ now = 0
    /\ timer = NewTimer
    /\ connected = {}
    /\ queue = [s \in Sids |-> <<>>]
    /\ running = NoSid
    /\ pc = "idle"
    /\ loc = NoLoc
    /\ inlog = <<>>
    /\ outlog = <<>>

Config == <<top_speed, steering_scale, image_part>>

\* the running handler moves to position p
Goto(p) ==
    /\ pc' = p
    /\ inlog' = [inlog EXCEPT ![Cur].reached = Append(@, p)]
    /\ UNCHANGED running

\* the running handler returns
Return ==
    /\ pc' = "idle"
    /\ running' = NoSid
    /\ inlog' = [inlog EXCEPT ![Cur].status = "done", ![Cur].loc = loc']

\* the running handler raises: nothing in telemetry() or in the registered
\* callback catches it
Raise(exc) ==
    /\ pc' = "idle"
    /\ running' = NoSid
    /\ inlog' = [inlog EXCEPT ![Cur].status = "raised", ![Cur].exc = exc,
                              ![Cur].loc = loc']

----------------------------------------------------------------------------
(* Environment: the simulator clients and the clock *)

\* a client sends a telemetry event; it waits in the transport until the
\* worker dispatches it
Arrive(s, data) ==
    /\ Serving
    /\ s \in connected
    /\ running # s \/ pc \notin {"connect_reset", "connect_send"}
    /\ Pending < MaxEvents
    /\ Len(queue[s]) < MaxQueue
    /\ queue' = [queue EXCEPT ![s] = Append(@, [data |-> data, n |-> NextStamp])]
    /\ UNCHANGED <<Config, server, timer, now, connected, running, pc, loc,
                   inlog, outlog>>

\* a client goes away.  Sim.run registers handlers for 'telemetry' and
\* 'connect' only (lines 64-70), so no code of SteeringServer runs: the
\* SocketIO server takes the sid out of its room and what the client had in
\* the transport is lost with the connection.  The worker learns of it
\* between handlers, as it learns of every event.  self.timer is not
\* touched: the frame counter and the window start stay as they were.
Disconnect(s) ==
    /\ Serving
    /\ Idle
    /\ s \in connected
    /\ connected' = connected \ {s}
    /\ queue' = [queue EXCEPT ![s] = <<>>]
    /\ UNCHANGED <<Config, server, timer, now, running, pc, loc, inlog, outlog>>

Tick ==
    /\ now < MaxClock
    /\ now' = now + 1
    /\ UNCHANGED <<Config, server, timer, connected, queue, running, pc, loc,
                   inlog, outlog>>

----------------------------------------------------------------------------
(* go(address), lines 184-195 *)

\* eventlet.listen binds and eventlet.wsgi.server starts serving
GoServe ==
    /\ server.phase = "constructed"
    /\ server' = [server EXCEPT !.phase = "serving"]
    /\ UNCHANGED <<Config, timer, now, connected, queue, running, pc, loc,
                   inlog, outlog>>

\* eventlet.listen cannot bind the address
GoBindFails ==
    /\ server.phase = "constructed"
    /\ server' = go_except("OSError")
    /\ UNCHANGED <<Config, timer, now, connected, queue, running, pc, loc,
                   inlog, outlog>>

\* Ctrl+C while serving; a handler that was running is abandoned
Interrupt ==
    /\ Serving
    /\ server' = go_except("KeyboardInterrupt")
    /\ running' = NoSid
    /\ pc' = "idle"
    /\ UNCHANGED <<Config, timer, now, connected, queue, loc, inlog, outlog>>

----------------------------------------------------------------------------
(* connect(sid, environ), lines 170-173 *)

\* the SocketIO server enters the sid in its room, then calls the handler
ConnectBegin(s) ==
    /\ Serving
    /\ Idle
    /\ s \notin connected
    /\ Pending < MaxEvents
    /\ connected' = connected \cup {s}
    /\ running' = s
    /\ pc' = "connect_reset"
    /\ loc' = NoLoc
    /\ inlog' = Append(inlog, Call(s, "connect", PyNone, 0))
    /\ UNCHANGED <<Config, server, timer, now, queue, outlog>>

\* self.timer.reset()
ConnectReset ==
    /\ pc = "connect_reset"
    /\ timer' = reset(timer)
    /\ Goto("connect_send")
    /\ UNCHANGED <<Config, server, now, connected, queue, loc, outlog>>

\* connect() returning without the reset command
ConnectSendSkipped ==
    /\ pc = "connect_send"
    /\ outlog' = outlog
    /\ loc' = loc
    /\ Return
    /\ UNCHANGED <<Config, server, timer, now, connected, queue>>

\* self.send_control(0, 0)
ConnectSend ==
    /\ pc = "connect_send"
    /\ outlog' = send_control(PyInt(0), PyInt(0), Cur)
    /\ loc' = loc
    /\ Return
    /\ UNCHANGED <<Config, server, timer, now, connected, queue>>

----------------------------------------------------------------------------
(* telemetry(sid, data), lines 121-168 *)

\* the worker takes the oldest event of a connection and calls the handler,
\* which tests `if data:`
TelemetryBegin(s) ==
    /\ Serving
    /\ Idle
    /\ s \in connected
    /\ queue[s] # <<>>
    /\ queue' = [queue EXCEPT ![s] = Tail(@)]
    /\ running' = s
    /\ loc' = NoLoc
    /\ LET ev == Head(queue[s])
           p == IF Truthy(ev.data) THEN "decode" ELSE "manual"
       IN  /\ pc' = p
           /\ inlog' = Append(inlog, [Call(s, "telemetry", ev.data, ev.n)
                                         EXCEPT !.reached = <<p>>])
    /\ UNCHANGED <<Config, server, timer, now, connected, outlog>>

\* lines 130-145
Decode ==
    /\ pc = "decode"
    /\ LET d == inlog[Cur].data.d
           e == DecodeError(d)
       IN  IF e # "none"
           THEN /\ loc' = loc
                /\ Raise(e)
           ELSE /\ loc' = [loc EXCEPT !.last_steering = Float(Get(d, "steering_angle")),
                                      !.last_throttle = Float(Get(d, "throttle")),
                                      !.speed = Float(Get(d, "speed")),
                                      !.image_array = AsArray(Get(d, "image"))]
                /\ Goto("preprocess")
    /\ UNCHANGED <<Config, server, timer, now, connected, queue, outlog>>

\* the pre-filter configured but never run
PreprocessSkipped ==
    /\ pc = "preprocess"
    /\ loc' = loc
    /\ pc' = "predict"
    /\ inlog' = [inlog EXCEPT ![Cur].reached = Append(@, "predict")]
    /\ UNCHANGED <<Config, server, timer, now, connected, queue, running, outlog>>

\* lines 148-149
Preprocess ==
    /\ pc = "preprocess"
    /\ IF image_part # "None"
       THEN /\ loc' = [loc EXCEPT !.image_array = ImagePartRun(@)]
            /\ pc' = "predict"
            /\ inlog' = [inlog EXCEPT ![Cur].iruns = @ + 1,
                                      ![Cur].reached = Append(@, "predict")]
       ELSE /\ loc' = loc
            /\ pc' = "predict"
            /\ inlog' = [inlog EXCEPT ![Cur].reached = Append(@, "predict")]
    /\ UNCHANGED <<Config, server, timer, now, connected, queue, running, outlog>>

\* line 152, the model answers
Predict(out) ==
    /\ pc = "predict"
    /\ loc' = [loc EXCEPT !.steering = out[1], !.throttle = out[2]]
    /\ pc' = "throttle"
    /\ inlog' = [inlog EXCEPT ![Cur].kruns = @ + 1,
                              ![Cur].nn = out,
                              ![Cur].seen = loc.image_array,
                              ![Cur].reached = Append(@, "throttle")]
    /\ UNCHANGED <<Config, server, timer, now, connected, queue, running, outlog>>

\* a neutral command sent before the failure of the model is passed on
PredictFailsSendsNeutral ==
    /\ pc = "predict"
    /\ loc' = loc
    /\ pc' = "idle"
    /\ running' = NoSid
    /\ outlog' = send_control(PyInt(0), PyInt(0), Cur)
    /\ inlog' = [inlog EXCEPT ![Cur].kruns = @ + 1,
                              ![Cur].seen = loc.image_array,
                              ![Cur].status = "raised",
                              ![Cur].exc = "PredictionError",
                              ![Cur].loc = loc]
    /\ UNCHANGED <<Config, server, timer, now, connected, queue>>

\* line 152, the model raises
PredictFails ==
    /\ pc = "predict"
    /\ loc' = loc
    /\ pc' = "idle"
    /\ running' = NoSid
    /\ inlog' = [inlog EXCEPT ![Cur].kruns = @ + 1,
                              ![Cur].seen = loc.image_array,
                              ![Cur].status = "raised",
                              ![Cur].exc = "PredictionError",
                              ![Cur].loc = loc]
    /\ UNCHANGED <<Config, server, timer, now, connected, queue, outlog>>

\* a throttle policy that lowers top_speed to the speed it saw
ThrottleStepAdapts ==
    /\ pc = "throttle"
    /\ loc' = [loc EXCEPT !.throttle =
                   throttle_control(loc.last_steering, loc.last_throttle,
                                    loc.speed, loc.throttle)]
    /\ Goto("scale")
    /\ top_speed' = loc.speed
    /\ UNCHANGED <<steering_scale, image_part, server, timer, now, connected,
                   queue, outlog>>

\* line 155
ThrottleStep ==
    /\ pc = "throttle"
    /\ loc' = [loc EXCEPT !.throttle =
                   throttle_control(loc.last_steering, loc.last_throttle,
                                    loc.speed, loc.throttle)]
    /\ Goto("scale")
    /\ UNCHANGED <<Config, server, timer, now, connected, queue, outlog>>

\* line 159
ScaleStep ==
    /\ pc = "scale"
    /\ loc' = [loc EXCEPT !.steering = FloatMul(@, steering_scale)]
    /\ Goto("send")
    /\ UNCHANGED <<Config, server, timer, now, connected, queue, outlog>>

\* line 162
SendStep ==
    /\ pc = "send"
    /\ outlog' = send_control(PyFloat(loc.steering), PyFloat(loc.throttle), Cur)
    /\ loc' = loc
    /\ Goto("on_frame")
    /\ UNCHANGED <<Config, server, timer, now, connected, queue>>

\* timer.on_frame() called in the `if data:` branch only
ManualStepReturns ==
    /\ pc = "manual"
    /\ outlog' = Emit("manual", {}, PyTrue, Cur)
    /\ loc' = loc
    /\ Return
    /\ UNCHANGED <<Config, server, timer, now, connected, queue>>

\* line 166
ManualStep ==
    /\ pc = "manual"
    /\ outlog' = Emit("manual", {}, PyTrue, Cur)
    /\ loc' = loc
    /\ Goto("on_frame")
    /\ UNCHANGED <<Config, server, timer, now, connected, queue>>

\* line 168
OnFrameStep ==
    /\ pc = "on_frame"
    /\ timer' = on_frame(timer)
    /\ loc' = loc
    /\ IF on_frame_raises(timer) THEN Raise("ZeroDivisionError") ELSE Return
    /\ UNCHANGED <<Config, server, now, connected, queue, outlog>>

----------------------------------------------------------------------------

Next ==
    \/ GoServe
    \/ GoBindFails
    \/ Interrupt
    \/ \E s \in Sids, data \in Payloads : Arrive(s, data)
    \/ \E s \in Sids : Disconnect(s)
    \/ Tick
    \/ \E s \in Sids : ConnectBegin(s)
    \/ ConnectReset
    \/ ConnectSend
    \/ \E s \in Sids : TelemetryBegin(s)
    \/ Decode
    \/ Preprocess
    \/ \E out \in ModelOutputs : Predict(out)
    \/ PredictFails
    \/ ThrottleStep
    \/ ScaleStep
    \/ SendStep
    \/ ManualStep
    \/ OnFrameStep

Spec == Init /\ [][Next]_vars

----------------------------------------------------------------------------
(* The FPSTimer on its own: any sequence of reset() and on_frame() calls *)

TimerReset ==
    /\ timer' = reset(timer)
    /\ UNCHANGED <<Config, server, now, connected, queue, running, pc, loc,
                   inlog, outlog>>

TimerOnFrame ==
    /\ 100 * timer.wins + timer.run < MaxFrames
    /\ timer' = on_frame(timer)
    /\ UNCHANGED <<Config, server, now, connected, queue, running, pc, loc,
                   inlog, outlog>>

NextTimer ==
    \/ TimerReset
    \/ TimerOnFrame
    \/ Tick

SpecTimer == Init /\ [][NextTimer]_vars

----------------------------------------------------------------------------
(* Properties *)

Calls == 1..Len(inlog)
Outs == 1..Len(outlog)

SteersOf(i) == {k \in Outs : outlog[k].cause = i /\ outlog[k].event = "steer"}
ManualsOf(i) == {k \in Outs : outlog[k].cause = i /\ outlog[k].event = "manual"}

IsTelemetry(i) == inlog[i].kind = "telemetry"
IsConnect(i) == inlog[i].kind = "connect"
Finished(i) == inlog[i].status # "running"
Malformed(i) == Truthy(inlog[i].data) /\ DecodeError(inlog[i].data.d) # "none"
Decoded(i) == /\ Truthy(inlog[i].data)
              /\ DecodeError(inlog[i].data.d) = "none"
              /\ "preprocess" \in {inlog[i].reached[k] : k \in 1..Len(inlog[i].reached)}

ZeroCommand == {<<"steering_angle", <<"0">>>>, <<"throttle", <<"0">>>>}

\* C1: every "steer" event, the reset on connect and the answer to a
\* telemetry frame alike, is received by the session that caused it and by
\* no other session.
C1_SteerToOriginOnly ==
    \A k \in Outs :
        outlog[k].event = "steer" => outlog[k].recips = {inlog[outlog[k].cause].sid}

\* C2: a telemetry event with an empty or null payload produces exactly one
\* "manual" event, no "steer" event, and neither image_part.run nor kpart.run
\* is called.
C2_EmptyTelemetry ==
    \A i \in Calls :
        (IsTelemetry(i) /\ (inlog[i].data.none \/ inlog[i].data.d = {})) =>
            /\ SteersOf(i) = {}
            /\ inlog[i].kruns = 0
            /\ inlog[i].iruns = 0
            /\ Cardinality(ManualsOf(i)) <= 1
            /\ Finished(i) => inlog[i].status = "done" /\ Cardinality(ManualsOf(i)) = 1

C2_Witness ==
    \E i \in Calls :
        /\ IsTelemetry(i) /\ inlog[i].data = EmptyDict /\ inlog[i].status = "done"
        /\ Cardinality(ManualsOf(i)) = 1
        /\ \E j \in Calls : IsTelemetry(j) /\ inlog[j].kruns = 1

\* C3: the "manual" event sent for an empty payload from session s has data
\* {} and its recipients are exactly the connected sessions other than s.
C3_ManualToOthers ==
    [][ManualStep =>
          LET e == outlog'[Len(outlog')] IN
          /\ e.event = "manual"
          /\ e.data = {}
          /\ e.recips = connected \ {running}]_vars

\* C4: every connect event sends exactly one "steer" event with
\* steering_angle "0" and throttle "0" that the new session receives, and
\* it has been emitted when the first telemetry event of that session is
\* dispatched.
C4_ConnectSendsZero ==
    /\ \A i \in Calls :
           (IsConnect(i) /\ Finished(i)) =>
               /\ inlog[i].status = "done"
               /\ Cardinality(SteersOf(i)) = 1
               /\ ManualsOf(i) = {}
               /\ \A k \in SteersOf(i) :
                      /\ outlog[k].data = ZeroCommand
                      /\ inlog[i].sid \in outlog[k].recips
    /\ \A i \in Calls :
           IsTelemetry(i) =>
               \E j \in 1..(i - 1) :
                   /\ IsConnect(j) /\ inlog[j].sid = inlog[i].sid
                   /\ \E k \in SteersOf(j) : outlog[k].data = ZeroCommand

C4_Witness ==
    \E i \in Calls :
        /\ IsTelemetry(i) /\ inlog[i].status = "running"
        /\ \E j \in 1..(i - 1) :
               IsConnect(j) /\ inlog[j].sid = inlog[i].sid /\ Cardinality(SteersOf(j)) = 1

\* C5: a non-empty malformed telemetry payload causes no "steer" event and
\* its failure does not leave the telemetry callback.
C5_MalformedContained ==
    \A i \in Calls :
        (IsTelemetry(i) /\ Malformed(i)) =>
            /\ SteersOf(i) = {}
            /\ inlog[i].status # "raised"

\* C6: a failure raised by kpart.run causes no "steer" event for that frame
\* and does not leave the telemetry callback.
C6_PredictFailureContained ==
    \A i \in Calls :
        (IsTelemetry(i) /\ inlog[i].exc = "PredictionError") =>
            /\ SteersOf(i) = {}
            /\ inlog[i].status = "done"

\* C7: while the telemetry callback of one session is inside kpart.run, a
\* connect event of another session can be handled.
C7_ConnectDuringInference ==
    \A b \in Sids :
        (pc = "predict" /\ running # b /\ b \notin connected /\ Pending < MaxEvents)
            => ENABLED ConnectBegin(b)

\* C8: the telemetry events of one connection are processed in arrival
\* order, one at a time: a later one is dispatched only when every earlier
\* one has returned, events are emitted only by the one running callback,
\* and the "steer" events follow the order of the frames that caused them.
C8_Order ==
    /\ Cardinality({i \in Calls : ~Finished(i)}) <= 1
    /\ \A i, j \in Calls :
           (i < j /\ IsTelemetry(i) /\ IsTelemetry(j) /\ inlog[i].sid = inlog[j].sid) =>
               /\ Finished(i)
               /\ inlog[i].n < inlog[j].n
    /\ \A k, l \in Outs :
           (/\ k < l
            /\ outlog[k].event = "steer" /\ outlog[l].event = "steer"
            /\ IsTelemetry(outlog[k].cause) /\ IsTelemetry(outlog[l].cause)
            /\ inlog[outlog[k].cause].sid = inlog[outlog[l].cause].sid) =>
               inlog[outlog[k].cause].n < inlog[outlog[l].cause].n

C8_EmitByRunning ==
    outlog' # outlog =>
        /\ Len(outlog') = Len(outlog) + 1
        /\ SubSeq(outlog', 1, Len(outlog)) = outlog
        /\ outlog'[Len(outlog')].cause = Len(inlog)
        /\ inlog[Len(inlog)].status = "running"

C8_InOrderOneInFlight == []C8_Order /\ [][C8_EmitByRunning]_vars

C8_Witness ==
    \E i, j \in Calls :
        /\ i < j /\ IsTelemetry(i) /\ IsTelemetry(j)
        /\ inlog[i].sid = inlog[j].sid
        /\ Cardinality(SteersOf(i)) = 1
        /\ Cardinality(SteersOf(j)) = 1

\* C9 as claimed: every successfully decoded telemetry frame is answered by
\* exactly one "steer" event.
C9_DecodedFrameOneSteer ==
    \A i \in Calls :
        (IsTelemetry(i) /\ Decoded(i) /\ Finished(i)) => Cardinality(SteersOf(i)) = 1

\* C9 amended: every telemetry frame that is decoded and for which kpart.run
\* returns is answered by exactly one "steer" event whose steering_angle is
\* the text of (model steering) * steering_scale and whose throttle is the
\* text of the governed throttle, 0.3 below top_speed and 0.0 otherwise; a
\* decoded frame for which kpart.run raises is answered by none.
C9_SteerPayload ==
    \A i \in Calls :
        (IsTelemetry(i) /\ Decoded(i) /\ Finished(i)) =>
            IF inlog[i].exc = "PredictionError"
            THEN SteersOf(i) = {}
            ELSE /\ inlog[i].status = "done"
                 /\ Cardinality(SteersOf(i)) = 1
                 /\ \A k \in SteersOf(i) :
                        outlog[k].data =
                            {<<"steering_angle",
                               FloatStr((inlog[i].nn[1] * steering_scale) \div 100)>>,
                             <<"throttle",
                               IF Float(Get(inlog[i].data.d, "speed")) < top_speed
                               THEN <<"0", ".", "3">> ELSE <<"0", ".", "0">>>>}

C9_Witness ==
    \E i \in Calls :
        /\ IsTelemetry(i) /\ inlog[i].status = "done" /\ inlog[i].nn = <<-50, 80>>
        /\ steering_scale = 200
        /\ \E k \in SteersOf(i) :
               outlog[k].data = {<<"steering_angle", <<"-", "1", ".", "0">>>>,
                                 <<"throttle", <<"0", ".", "3">>>>}

\* C10: throttle_control returns 0.3 when speed < top_speed and 0.0 when
\* speed >= top_speed, whatever last_steering, last_throttle and nn_throttle
\* are, and leaves the server's state as it was.
C10_ThrottleControl ==
    [][ThrottleStep =>
          /\ loc'.throttle = (IF loc.speed < top_speed THEN 30 ELSE 0)
          /\ \A ls, lt, nn \in {-50, 0, 30, 80} :
                 throttle_control(ls, lt, loc.speed, nn) = loc'.throttle
          /\ loc' = [loc EXCEPT !.throttle = loc'.throttle]
          /\ UNCHANGED <<Config, server, timer, now, connected, queue, running, outlog>>]_vars

C10_Witness ==
    /\ pc = "scale"
    /\ loc.speed = top_speed
    /\ loc.throttle = 0
    /\ inlog[Cur].nn[2] = 80

\* C11: the 100th on_frame call after a reset prints exactly one throughput
\* report, sets the counter back to 0 and refreshes the window start; the
\* calls 1..99 print none.
C11_HundredthFrameReports ==
    [][TimerOnFrame =>
          IF timer.run = 99
          THEN /\ timer'.reports = timer.reports + 1
               /\ timer'.iter = 0
               /\ timer'.t = now
          ELSE timer'.reports = timer.reports]_vars

\* C12: each session has its own frame-rate tracker: no step of a handler
\* of session b changes the frame counter or the window start that another
\* connected session a is measured with.
C12_TimerPerSession ==
    [][\A a \in connected : \A b \in Sids \ {a} :
           running = b => (timer'.iter = timer.iter /\ timer'.t = timer.t)]_vars

\* connect call i has run self.timer.reset()
HasReset(i) ==
    /\ IsConnect(i)
    /\ \E k \in 1..Len(inlog[i].reached) : inlog[i].reached[k] = "connect_send"

\* the frame counter and window start in the timer are the ones the connect
\* of session c created: no later connect has reset them
SessionStateOf(c) ==
    \E i \in Calls :
        /\ HasReset(i)
        /\ inlog[i].sid = c
        /\ \A j \in Calls : HasReset(j) => j <= i

\* C13: a disconnect releases the session: for a disconnected session c no
\* event of it waits, no handler of it is running, the frame counter its
\* connect created holds no counted frame, and a telemetry event is
\* dispatched only for a session that is connected; the step that
\* disconnects c leaves it with no event waiting and no handler running.
C13_NothingHeld ==
    \A c \in Sids \ connected :
        /\ queue[c] = <<>>
        /\ running # c
        /\ \A i \in Calls : inlog[i].sid = c => Finished(i)
        /\ SessionStateOf(c) => timer.iter = 0

C13_Dispatch ==
    /\ Len(inlog') > Len(inlog) =>
           /\ inlog'[Len(inlog')].sid \in connected'
           /\ inlog'[Len(inlog')].kind = "telemetry" =>
                  inlog'[Len(inlog')].sid \in connected
    /\ \A c \in connected \ connected' : queue'[c] = <<>> /\ running' # c

C13_Lifecycle == []C13_NothingHeld /\ [][C13_Dispatch]_vars

\* C14: in go() a KeyboardInterrupt while serving prints the shutdown message
\* and go() returns normally; a failure to bind the listener is not caught,
\* it leaves go() and nothing is printed.
C14_GoExceptions ==
    [][/\ Interrupt => /\ server'.out = <<"stopping">>
                       /\ server'.escaped = "none"
                       /\ server'.phase = "stopped"
       /\ GoBindFails => /\ server'.escaped = "OSError"
                         /\ server'.out = <<>>
                         /\ server'.phase = "failed"]_vars

C14_Witness ==
    /\ server.phase = "stopped"
    /\ server.out = <<"stopping">>
    /\ \E i \in Calls : IsTelemetry(i) /\ inlog[i].status = "done"

\* C15: top_speed and steering_scale never change after construction.
C15_ConfigReadOnly ==
    [][top_speed' = top_speed /\ steering_scale' = steering_scale]_vars

C15_Witness ==
    \E i, j \in Calls :
        /\ IsTelemetry(i) /\ inlog[i].status = "done" /\ inlog[i].kruns = 1
        /\ IsTelemetry(j) /\ Malformed(j) /\ inlog[j].status = "raised"

PipelineOrder ==
    <<"decode", "preprocess", "predict", "throttle", "scale", "send", "on_frame">>

\* C16: a well-formed frame goes through decode, preprocess, predict,
\* throttle_control, send_control, on_frame in that order; the pre-filter runs
\* once if configured and not at all otherwise, kpart.run runs once and on
\* the pre-filtered image, and the frame counter moves only at the last step,
\* when the "steer" event has been emitted.
C16_Order ==
    \A i \in Calls :
        (IsTelemetry(i) /\ Truthy(inlog[i].data) /\ DecodeError(inlog[i].data.d) = "none") =>
            LET c == inlog[i]
                raw == DigitVal(Get(c.data.d, "image")[2])
            IN  /\ Len(c.reached) <= Len(PipelineOrder)
                /\ c.reached = SubSeq(PipelineOrder, 1, Len(c.reached))
                /\ c.kruns <= 1
                /\ c.kruns = 1 =>
                       /\ c.seen = (IF image_part = "None" THEN raw ELSE raw + 10)
                       /\ c.iruns = (IF image_part = "None" THEN 0 ELSE 1)
                /\ c.status = "done" =>
                       /\ c.reached = PipelineOrder
                       /\ c.kruns = 1
                       /\ Cardinality(SteersOf(i)) = 1
                /\ SteersOf(i) # {} => c.kruns = 1 /\ Len(c.reached) >= 7

C16_CounterLast ==
    (running # NoSid /\ IsTelemetry(Cur) /\ Truthy(inlog[Cur].data)
       /\ timer' # timer) =>
        /\ pc = "on_frame"
        /\ Cardinality(SteersOf(Cur)) = 1

C16_PipelineOrder == []C16_Order /\ [][C16_CounterLast]_vars

C16_Witness ==
    \E i \in Calls :
        /\ IsTelemetry(i) /\ inlog[i].status = "done"
        /\ inlog[i].reached = PipelineOrder
        /\ image_part = "filter"
        /\ inlog[i].seen = 12

\* C17: a telemetry callback that returns normally, the one for an empty
\* payload included, advances the frame counter by exactly one, at its last
\* step; one that fails in decoding or prediction leaves the timer as it was.
C17_FrameCounted ==
    [][/\ (Idle /\ ~Idle') => timer' = timer
       /\ (~Idle /\ IsTelemetry(Cur) /\ server' = server) =>
              IF inlog'[Cur].status = "done"
              THEN /\ timer'.iter = (timer.iter + 1) % 100
                   /\ timer'.run = (timer.run + 1) % 100
              ELSE inlog'[Cur].exc # "ZeroDivisionError" => timer' = timer]_vars

C17_Witness ==
    /\ timer.iter = 2
    /\ \E i \in Calls : IsTelemetry(i) /\ ~Truthy(inlog[i].data) /\ inlog[i].status = "done"
    /\ \E i \in Calls : IsTelemetry(i) /\ inlog[i].kruns = 1 /\ inlog[i].status = "done"

Predicted(i) ==
    /\ IsTelemetry(i)
    /\ Truthy(inlog[i].data)
    /\ DecodeError(inlog[i].data.d) = "none"
    /\ inlog[i].kruns = 1
    /\ inlog[i].exc # "PredictionError"

AllSteers == {k \in Outs : outlog[k].event = "steer"}

\* C18: every "steer" event answers a connect event or a non-empty telemetry
\* event that was decoded and predicted without error, and between events
\* the number of "steer" events is the number of connect events plus the
\* number of such telemetry events.
C18_SteerCount ==
    /\ \A k \in AllSteers : IsConnect(outlog[k].cause) \/ Predicted(outlog[k].cause)
    /\ (Serving /\ Idle) =>
           Cardinality(AllSteers) =
               Cardinality({i \in Calls : IsConnect(i)})
                 + Cardinality({i \in Calls : Predicted(i)})

C18_Witness ==
    /\ Serving /\ Idle
    /\ Cardinality(AllSteers) = 2
    /\ \E i \in Calls : IsTelemetry(i) /\ inlog[i].exc = "PredictionError"

\* C19: between reset() and on_frame() calls the frame counter is within
\* 0..99, and the number of throughput reports is the number of full windows
\* of 100 on_frame calls.
C19_CounterRange ==
    /\ timer.iter \in 0..99
    /\ timer.reports = timer.wins

====
